---- MODULE Spec2Model ----
(***************************************************************************)
(* A model of the CSV-to-JSON converter (src/src/utils/csvParser.js).      *)
(*                                                                         *)
(* A JavaScript string is a sequence of one-character strings, so that the *)
(* scanners of the parser can be written character by character as the     *)
(* code writes them.                                                       *)
(***************************************************************************)
EXTENDS Integers, Sequences, FiniteSets, TLC

VARIABLES
    pc,          \* position of the running function
    csvContent,  \* parseCSVContent's argument
    lines,       \* const lines = this.splitCSVLines(csvContent)
    headers,     \* const headers = this.parseCSVRow(lines[0])
    i,           \* the loop index of the running function, 0-based as in the code
    jsonData,    \* the records pushed so far
    error,       \* the Error thrown out of the running function, or NoError
    warnings,    \* what console.warn was called with, in call order
    tokenized,   \* the 0-based indices of the lines handed to parseCSVRow
    rows,        \* the values parsed from the data rows, in call order
    values,      \* createNestedObject's second argument
    result,      \* createNestedObject's result object
    calls,       \* the arguments convertValue was called with, in call order
    value,       \* convertValue's argument
    converted,   \* convertValue's return value
    queries,     \* what client.query was called with, in call order, and how it ended
    insertedCount, \* insertUsersToDatabase's counter
    caught,      \* the error insertUsersToDatabase's catch block holds, or NoError
    released,    \* how often client.release() was called
    returnValue  \* what insertUsersToDatabase returned, or NoValue

\* the state of the parser's functions, and of insertUsersToDatabase
parserVars == <<csvContent, lines, headers, tokenized, rows, result, calls, value,
                converted>>

dbVars == <<queries, insertedCount, caught, released, returnValue>>

vars == <<pc, csvContent, lines, headers, i, jsonData, error, warnings, tokenized,
          rows, values, result, calls, value, converted, queries, insertedCount,
          caught, released, returnValue>>

(***************************************************************************)
(* Bounds of the model.                                                    *)
(***************************************************************************)
MaxText == 5
MaxRaw == 4
MaxCols == 2
MaxRows == 2
MaxExtra == 1

(***************************************************************************)
(* Strings.                                                                *)
(***************************************************************************)
\* csvContent[i + 1] past the end of the string
Undefined == "undefined"

\* String.prototype.trim's white space, as far as the model's characters go
IsSpace(c) == c \in {" ", "\t", "\n", "\r"}

RECURSIVE TrimStart(_)
TrimStart(s) ==
    IF s # <<>> /\ IsSpace(Head(s)) THEN TrimStart(Tail(s)) ELSE s

RECURSIVE TrimEnd(_)
TrimEnd(s) ==
    IF s # <<>> /\ IsSpace(s[Len(s)]) THEN TrimEnd(SubSeq(s, 1, Len(s) - 1)) ELSE s

\* String.prototype.trim
Trim(s) == TrimEnd(TrimStart(s))

\* s[i] of a JavaScript string, 0-based: undefined past the end
CharAt(s, k) == IF k + 1 <= Len(s) THEN s[k + 1] ELSE Undefined

\* all strings over the characters cs of length at most n
RECURSIVE StringsUpTo(_, _)
StringsUpTo(cs, n) ==
    IF n = 0 THEN {<<>>}
    ELSE LET shorter == StringsUpTo(cs, n - 1)
         IN  shorter \cup {Append(s, c) : s \in shorter, c \in cs}

(***************************************************************************)
(* splitCSVLines (lines 131-175). The state of its loop is the index i and *)
(* the three locals; SplitStep is one iteration (lines 138-166), which     *)
(* leaves the state alone once i has run off the end.                      *)
(***************************************************************************)
\* the iteration without the insideQuotes tests of lines 152 and 158: every
\* line terminator ends the line
SplitStepAtEveryTerminator(content, st) ==
    LET char == CharAt(content, st.i)
        nextChar == CharAt(content, st.i + 1)
        pushed == IF Trim(st.currentLine) # <<>>
                  THEN Append(st.lines, st.currentLine) ELSE st.lines
    IN  IF st.i >= Len(content) THEN st
        ELSE IF char = "\""
        THEN IF st.insideQuotes /\ nextChar = "\""
             THEN [st EXCEPT !.currentLine = @ \o <<"\"", "\"">>, !.i = @ + 2]
             ELSE [st EXCEPT !.insideQuotes = ~@, !.currentLine = Append(@, char),
                             !.i = @ + 1]
        ELSE IF char = "\n"
        THEN [st EXCEPT !.lines = pushed, !.currentLine = <<>>, !.i = @ + 1]
        ELSE IF char = "\r" /\ nextChar = "\n"
        THEN [st EXCEPT !.lines = pushed, !.currentLine = <<>>, !.i = @ + 2]
        ELSE [st EXCEPT !.currentLine = Append(@, char), !.i = @ + 1]

SplitStep(content, st) ==
    LET char == CharAt(content, st.i)
        nextChar == CharAt(content, st.i + 1)
        pushed == IF Trim(st.currentLine) # <<>>
                  THEN Append(st.lines, st.currentLine) ELSE st.lines
    IN  IF st.i >= Len(content) THEN st
        ELSE IF char = "\""
        THEN IF st.insideQuotes /\ nextChar = "\""
             THEN [st EXCEPT !.currentLine = @ \o <<"\"", "\"">>, !.i = @ + 2]
             ELSE [st EXCEPT !.insideQuotes = ~@, !.currentLine = Append(@, char),
                             !.i = @ + 1]
        ELSE IF char = "\n" /\ ~st.insideQuotes
        THEN [st EXCEPT !.lines = pushed, !.currentLine = <<>>, !.i = @ + 1]
        ELSE IF char = "\r" /\ nextChar = "\n" /\ ~st.insideQuotes
        THEN [st EXCEPT !.lines = pushed, !.currentLine = <<>>, !.i = @ + 2]
        ELSE [st EXCEPT !.currentLine = Append(@, char), !.i = @ + 1]

\* n iterations of the loop from the state st: the first half of them, then the
\* rest from the state the first half has reached (half ranges over a one-element
\* set, which makes it a value computed once)
RECURSIVE SplitSteps(_, _, _)
SplitSteps(content, st, n) ==
    IF n = 0 THEN st
    ELSE IF n = 1 THEN SplitStep(content, st)
    ELSE CHOOSE last \in {SplitSteps(content, half, n - (n \div 2)) :
                             half \in {SplitSteps(content, st, n \div 2)}} : TRUE

\* the loop runs until i reaches the length, which takes at most that many
\* iterations; then the last line is added if it is not blank (lines 169-174)
splitCSVLines(content) ==
    LET st == SplitSteps(content,
                         [i |-> 0, currentLine |-> <<>>, insideQuotes |-> FALSE,
                          lines |-> <<>>],
                         Len(content))
    IN  IF Trim(st.currentLine) # <<>> THEN Append(st.lines, st.currentLine)
        ELSE st.lines

(***************************************************************************)
(* parseCSVRow (lines 183-215): RowStep is one iteration of its loop       *)
(* (lines 190-208).                                                        *)
(***************************************************************************)
\* the iteration without the escaped-quote branch of lines 195-198: every quote
\* toggles
RowStepWithoutEscape(row, st) ==
    LET char == CharAt(row, st.i)
    IN  IF st.i >= Len(row) THEN st
        ELSE IF char = "\""
        THEN [st EXCEPT !.insideQuotes = ~@, !.i = @ + 1]
        ELSE IF char = "," /\ ~st.insideQuotes
        THEN [st EXCEPT !.fields = Append(@, Trim(st.currentValue)),
                        !.currentValue = <<>>, !.i = @ + 1]
        ELSE [st EXCEPT !.currentValue = Append(@, char), !.i = @ + 1]

RowStep(row, st) ==
    LET char == CharAt(row, st.i)
        nextChar == CharAt(row, st.i + 1)
    IN  IF st.i >= Len(row) THEN st
        ELSE IF char = "\""
        THEN IF st.insideQuotes /\ nextChar = "\""
             THEN [st EXCEPT !.currentValue = Append(@, "\""), !.i = @ + 2]
             ELSE [st EXCEPT !.insideQuotes = ~@, !.i = @ + 1]
        ELSE IF char = "," /\ ~st.insideQuotes
        THEN [st EXCEPT !.fields = Append(@, Trim(st.currentValue)),
                        !.currentValue = <<>>, !.i = @ + 1]
        ELSE [st EXCEPT !.currentValue = Append(@, char), !.i = @ + 1]

\* n iterations of the loop from the state st
RECURSIVE RowSteps(_, _, _)
RowSteps(row, st, n) ==
    IF n = 0 THEN st
    ELSE IF n = 1 THEN RowStep(row, st)
    ELSE CHOOSE last \in {RowSteps(row, half, n - (n \div 2)) :
                             half \in {RowSteps(row, st, n \div 2)}} : TRUE

\* the loop, then the last value is added (line 212)
parseCSVRow(row) ==
    LET st == RowSteps(row,
                       [i |-> 0, currentValue |-> <<>>, insideQuotes |-> FALSE,
                        fields |-> <<>>],
                       Len(row))
    IN  Append(st.fields, Trim(st.currentValue))

NoError == [kind |-> "none"]

\* a variable that holds no JavaScript value yet
NoValue == [t |-> "none"]

\* insertUsersToDatabase has not been called
DbIdle ==
    /\ queries = <<>>
    /\ insertedCount = 0
    /\ caught = NoError
    /\ released = 0
    /\ returnValue = NoValue

(***************************************************************************)
(* JavaScript values. A number is its mathematical value m * 10^e (m not   *)
(* divisible by 10, zero unsigned), or NaN, or an infinity; this is exact  *)
(* for the decimal literals of up to 15 significant digits, which a double *)
(* gives back digit for digit.                                             *)
(***************************************************************************)
JSString(s) == [t |-> "string", str |-> s]
JSBoolean(b) == [t |-> "boolean", bool |-> b]
JSNumber(n) == [t |-> "number", num |-> n]
JSObject(props) == [t |-> "object", props |-> props]

\* {}
EmptyObject == JSObject([key \in {} |-> NoValue])

NaN == [k |-> "nan", neg |-> FALSE, m |-> 0, e |-> 0]
Infinite(neg) == [k |-> "inf", neg |-> neg, m |-> 0, e |-> 0]

RECURSIVE NumDigits(_)
NumDigits(m) == IF m < 10 THEN 1 ELSE 1 + NumDigits(m \div 10)

RECURSIVE Pow10(_)
Pow10(n) == IF n <= 0 THEN 1 ELSE 10 * Pow10(n - 1)

\* the first five digits of m, as a number (m has at most five digits here)
Lead5(m) == IF NumDigits(m) >= 5 THEN m \div Pow10(NumDigits(m) - 5)
            ELSE m * Pow10(5 - NumDigits(m))

RECURSIVE Canonical(_, _, _)
Canonical(neg, m, e) ==
    IF m = 0 THEN [k |-> "fin", neg |-> FALSE, m |-> 0, e |-> 0]
    ELSE IF m % 10 = 0 THEN Canonical(neg, m \div 10, e + 1)
    ELSE [k |-> "fin", neg |-> neg, m |-> m, e |-> e]

\* The double nearest to (-1)^neg * m * 10^e: an infinity above the largest double
\* (1.7976931348623157e308), zero below half the smallest (4.94e-324).
ToDouble(neg, m, e) ==
    LET c == Canonical(neg, m, e)
        magnitude == NumDigits(c.m) + c.e
    IN  IF c.m = 0 THEN c
        ELSE IF magnitude > 309 \/ (magnitude = 309 /\ Lead5(c.m) >= 17977)
        THEN Infinite(neg)
        ELSE IF magnitude < -323 \/ (magnitude = -323 /\ Lead5(c.m) <= 24703)
        THEN Canonical(FALSE, 0, 0)
        ELSE c

IsNaNValue(n) == n.k = "nan"

\* Number.isInteger
IsInteger(n) == n.k = "fin" /\ n.e >= 0

\* String.prototype.toLowerCase, for the letters the model uses
Lower(c) ==
    CASE c = "A" -> "a" [] c = "B" -> "b" [] c = "C" -> "c" [] c = "D" -> "d"
      [] c = "E" -> "e" [] c = "F" -> "f" [] c = "I" -> "i" [] c = "L" -> "l"
      [] c = "N" -> "n" [] c = "O" -> "o" [] c = "R" -> "r" [] c = "S" -> "s"
      [] c = "T" -> "t" [] c = "U" -> "u" [] c = "X" -> "x" [] c = "Y" -> "y"
      [] OTHER -> c

toLowerCase(s) == [p \in 1..Len(s) |-> Lower(s[p])]

Digits == <<"0", "1", "2", "3", "4", "5", "6", "7", "8", "9",
            "a", "b", "c", "d", "e", "f">>

\* the value of c as a digit, 16 when it is none
DigitValue(c) ==
    IF \E d \in 1..16 : Digits[d] = Lower(c)
    THEN (CHOOSE d \in 1..16 : Digits[d] = Lower(c)) - 1
    ELSE 16

\* how many digits of the radix stand at s[p], s[p+1], ... (p is 1-based)
RECURSIVE DigitRun(_, _, _)
DigitRun(s, p, radix) ==
    IF p <= Len(s) /\ DigitValue(s[p]) < radix
    THEN 1 + DigitRun(s, p + 1, radix)
    ELSE 0

\* the number written by the digits s[from..to] in the radix
RECURSIVE DigitsValue(_, _, _, _)
DigitsValue(s, from, to, radix) ==
    IF from > to THEN 0
    ELSE DigitsValue(s, from, to - 1, radix) * radix + DigitValue(s[to])

At(s, p) == IF 1 <= p /\ p <= Len(s) THEN s[p] ELSE Undefined

InfinityWord == <<"I", "n", "f", "i", "n", "i", "t", "y">>

\* The longest prefix of t that is a StrDecimalLiteral (ECMA-262 7.1.4.1):
\* [+-] ( Infinity | digits [. [digits]] [exponent] | . digits [exponent] ),
\* exponent = (e|E) [+-] digits. len = 0 when t has no such prefix.
DecimalPrefix(t) ==
    LET signed == At(t, 1) \in {"+", "-"}
        neg == At(t, 1) = "-"
        p == IF signed THEN 2 ELSE 1
        intLen == DigitRun(t, p, 10)
        dotAt == p + intLen
        hasDot == At(t, dotAt) = "."
        fracLen == IF hasDot THEN DigitRun(t, dotAt + 1, 10) ELSE 0
        hasMantissa == intLen > 0 \/ fracLen > 0
        mantissaEnd == IF hasDot THEN dotAt + 1 + fracLen ELSE dotAt
        expSigned == At(t, mantissaEnd + 1) \in {"+", "-"}
        expNeg == At(t, mantissaEnd + 1) = "-"
        expAt == IF expSigned THEN mantissaEnd + 2 ELSE mantissaEnd + 1
        expLen == IF Lower(At(t, mantissaEnd)) = "e" THEN DigitRun(t, expAt, 10) ELSE 0
        expValue == DigitsValue(t, expAt, expAt + expLen - 1, 10)
        exponent == IF expLen = 0 THEN 0 ELSE IF expNeg THEN 0 - expValue ELSE expValue
        mantissa == DigitsValue(t, p, p + intLen - 1, 10) * Pow10(fracLen)
                    + DigitsValue(t, dotAt + 1, dotAt + fracLen, 10)
    IN  IF Len(t) >= p + 7 /\ SubSeq(t, p, p + 7) = InfinityWord
        THEN [len |-> p + 7, num |-> Infinite(neg)]
        ELSE IF ~hasMantissa THEN [len |-> 0, num |-> NaN]
        ELSE [len |-> (IF expLen = 0 THEN mantissaEnd ELSE expAt + expLen) - 1,
              num |-> ToDouble(neg, mantissa, exponent - fracLen)]

\* the radix of a 0x, 0o or 0b literal, 0 when t does not start as one
PrefixRadix(t) ==
    IF At(t, 1) # "0" THEN 0
    ELSE CASE Lower(At(t, 2)) = "x" -> 16
           [] Lower(At(t, 2)) = "o" -> 8
           [] Lower(At(t, 2)) = "b" -> 2
           [] OTHER -> 0

\* Number(s), the conversion isNaN(value) applies to its argument: the whole
\* trimmed string must be a StringNumericLiteral; the empty string is 0.
ToNumber(s) ==
    LET t == Trim(s)
        radix == PrefixRadix(t)
        d == DecimalPrefix(t)
    IN  IF t = <<>> THEN Canonical(FALSE, 0, 0)
        ELSE IF radix # 0
        THEN IF Len(t) > 2 /\ DigitRun(t, 3, radix) = Len(t) - 2
             THEN ToDouble(FALSE, DigitsValue(t, 3, Len(t), radix), 0)
             ELSE NaN
        ELSE IF d.len = Len(t) THEN d.num ELSE NaN

\* Number.parseFloat(s): the longest decimal prefix after leading white space
parseFloat(s) == DecimalPrefix(TrimStart(s)).num

\* Number.parseInt(s) without a radix: sign, 0x for radix 16, the longest run of
\* digits; NaN when there is none
parseInt(s) ==
    LET t == TrimStart(s)
        signed == At(t, 1) \in {"+", "-"}
        neg == At(t, 1) = "-"
        p == IF signed THEN 2 ELSE 1
        hex == At(t, p) = "0" /\ Lower(At(t, p + 1)) = "x"
        radix == IF hex THEN 16 ELSE 10
        from == IF hex THEN p + 2 ELSE p
        len == DigitRun(t, from, radix)
    IN  IF len = 0 THEN NaN
        ELSE ToDouble(neg, DigitsValue(t, from, from + len - 1, radix), 0)

(***************************************************************************)
(* convertValue (lines 297-312)                                            *)
(***************************************************************************)
TrueWord == <<"t", "r", "u", "e">>
FalseWord == <<"f", "a", "l", "s", "e">>

convertValue(raw) ==
    IF raw = <<>> THEN JSString(<<>>)
    ELSE IF ~IsNaNValue(ToNumber(raw)) /\ ~IsNaNValue(parseFloat(raw))
    THEN LET num == parseFloat(raw)
         IN  IF IsInteger(num) THEN JSNumber(parseInt(raw)) ELSE JSNumber(num)
    ELSE IF toLowerCase(raw) = TrueWord THEN JSBoolean(TRUE)
    ELSE IF toLowerCase(raw) = FalseWord THEN JSBoolean(FALSE)
    ELSE JSString(raw)

(***************************************************************************)
(* Objects. An object is its own properties, a function from property      *)
(* names to values. The property names of the model are not names that     *)
(* Object.prototype defines, so "key in current" is key \in DOMAIN props.  *)
(***************************************************************************)
\* current[key] = node
Put(current, key, node) ==
    JSObject([name \in DOMAIN current.props \cup {key} |->
                 IF name = key THEN node ELSE current.props[name]])

\* path.split(".")
RECURSIVE SplitDots(_, _, _, _)
SplitDots(path, p, segment, acc) ==
    IF p > Len(path) THEN Append(acc, segment)
    ELSE IF path[p] = "." THEN SplitDots(path, p + 1, <<>>, Append(acc, segment))
    ELSE SplitDots(path, p + 1, Append(segment, path[p]), acc)

split(path) == SplitDots(path, 1, <<>>, <<>>)

\* !key || key.trim() === ""
InvalidKey(key) == key = <<>> \/ Trim(key) = <<>>

(***************************************************************************)
(* setNestedProperty (lines 263-290). Descend(current, keys, k, path, val) *)
(* is the loop from index k on (0-based) and the final assignment, on the  *)
(* object current points to; it gives that object as the call leaves it,   *)
(* whether the call threw, and what convertValue was called with.          *)
(***************************************************************************)
\* line 277 without its test: a fresh container whatever current[key] is
freshContainer(current, key) == EmptyObject

\* lines 277-280: the object current[key] is once the step is over, a fresh one
\* unless current[key] is an object already
containerAt(current, key) ==
    IF key \in DOMAIN current.props /\ current.props[key].t = "object"
    THEN current.props[key]
    ELSE EmptyObject

\* line 289 guarded by !(lastKey in current): the first value stays
assignIfAbsent(current, lastKey, val) ==
    IF lastKey \in DOMAIN current.props THEN current
    ELSE Put(current, lastKey, convertValue(val))

\* current[lastKey] = this.convertValue(value) (line 289)
assignLast(current, lastKey, val) == Put(current, lastKey, convertValue(val))

RECURSIVE Descend(_, _, _, _, _)
Descend(current, keys, k, path, val) ==
    LET key == keys[k + 1]
    IN  IF k < Len(keys) - 1
        THEN IF InvalidKey(key)
             THEN [thrown |-> TRUE, node |-> current, called |-> <<>>,
                   message |-> [kind |-> "InvalidPropertyPath", path |-> path,
                                what |-> "Empty key found"]]
             ELSE [Descend(containerAt(current, key), keys, k + 1, path, val)
                      EXCEPT !.node = Put(current, key, @)]
        ELSE IF InvalidKey(key)
             THEN [thrown |-> TRUE, node |-> current, called |-> <<>>,
                   message |-> [kind |-> "InvalidPropertyPath", path |-> path,
                                what |-> "Empty final key"]]
             ELSE [thrown |-> FALSE, node |-> assignLast(current, key, val),
                   called |-> <<val>>, message |-> NoError]

setNestedProperty(obj, path, val) == Descend(obj, split(path), 0, path, val)

(***************************************************************************)
(* createNestedObject (lines 241-254): one iteration of its loop, and the  *)
(* whole loop.                                                             *)
(***************************************************************************)
\* the body of the loop without the value !== "" test of line 248
ColumnWritingEmpty(res, hdrs, vals, k) ==
    IF hdrs[k + 1] # <<>> /\ k < Len(vals)
    THEN setNestedProperty(res, hdrs[k + 1], vals[k + 1])
    ELSE [thrown |-> FALSE, node |-> res, called |-> <<>>, message |-> NoError]

\* the body of the loop for column k (0-based) on the result so far
Column(res, hdrs, vals, k) ==
    IF hdrs[k + 1] # <<>> /\ k < Len(vals) /\ vals[k + 1] # <<>>
    THEN setNestedProperty(res, hdrs[k + 1], vals[k + 1])
    ELSE [thrown |-> FALSE, node |-> res, called |-> <<>>, message |-> NoError]

\* the loop from column k on; done is what the columns before k have made:
\* the result so far and what convertValue was called with. A throw ends it.
RECURSIVE Columns(_, _, _, _)
Columns(done, hdrs, vals, k) ==
    IF k >= Len(hdrs) \/ done.thrown THEN done
    ELSE Columns([Column(done.node, hdrs, vals, k) EXCEPT
                     !.called = done.called \o @],
                 hdrs, vals, k + 1)

createNestedObject(hdrs, vals) ==
    Columns([thrown |-> FALSE, node |-> EmptyObject, called |-> <<>>,
             message |-> NoError], hdrs, vals, 0)

\* unshift in place of push: the newest record first
unshiftRecord(data, record) == <<record>> \o data

\* jsonData.push(jsonObject) (line 69)
pushRecord(data, record) == Append(data, record)

(***************************************************************************)
(* validateMandatoryFields (lines 221-232)                                 *)
(***************************************************************************)
NameFirstName == <<"n", "a", "m", "e", ".", "f", "i", "r", "s", "t", "N", "a", "m", "e">>
NameLastName == <<"n", "a", "m", "e", ".", "l", "a", "s", "t", "N", "a", "m", "e">>
Age == <<"a", "g", "e">>

mandatoryFields == <<NameFirstName, NameLastName, Age>>

\* headers.includes(field)
includes(hdrs, field) == \E h \in 1..Len(hdrs) : hdrs[h] = field

\* mandatoryFields.filter((field) => !headers.includes(field))
missingFields(hdrs) == SelectSeq(mandatoryFields, LAMBDA field : ~includes(hdrs, field))

\* find in place of filter: the error names the first missing field only
validateMandatoryFieldsFirstMissing(hdrs) ==
    IF Len(missingFields(hdrs)) > 0
    THEN [kind |-> "MissingMandatoryFields", fields |-> <<missingFields(hdrs)[1]>>]
    ELSE NoError

\* what validateMandatoryFields throws, NoError when it returns
validateMandatoryFields(hdrs) ==
    IF Len(missingFields(hdrs)) > 0
    THEN [kind |-> "MissingMandatoryFields", fields |-> missingFields(hdrs)]
    ELSE NoError

(***************************************************************************)
(* validatePropertyGrouping (lines 91-123): the warnings it logs, in the   *)
(* order of the Map's keys, which is the order of first appearance.        *)
(***************************************************************************)
\* header.split(".")[0]
rootProperty(header) == split(header)[1]

\* the keys of propertyGroups in insertion order
RECURSIVE GroupKeys(_, _, _)
GroupKeys(hdrs, h, keys) ==
    IF h > Len(hdrs) THEN keys
    ELSE GroupKeys(hdrs, h + 1,
                   IF \E n \in 1..Len(keys) : keys[n] = rootProperty(hdrs[h])
                   THEN keys ELSE Append(keys, rootProperty(hdrs[h])))

\* properties.map((p) => p.index) of a root: its 0-based header indices, ascending
GroupIndices(hdrs, root) ==
    LET at == SelectSeq([h \in 1..Len(hdrs) |-> h],
                        LAMBDA h : rootProperty(hdrs[h]) = root)
    IN  [n \in 1..Len(at) |-> at[n] - 1]

\* expectedIndices.every((expected, i) => expected === actualIndices[i])
areConsecutive(indices) ==
    LET minIndex == indices[1]
        maxIndex == indices[Len(indices)]
    IN  \A n \in 1..(maxIndex - minIndex + 1) :
            n <= Len(indices) /\ indices[n] = minIndex + n - 1

\* the check without the areConsecutive test of line 116: every root of more
\* than one header is warned about
validatePropertyGroupingOfEveryGroup(hdrs) ==
    LET keys == GroupKeys(hdrs, 1, <<>>)
        shared == SelectSeq(keys, LAMBDA root : Len(GroupIndices(hdrs, root)) > 1)
    IN  [n \in 1..Len(shared) |-> [kind |-> "NotGrouped", root |-> shared[n]]]

validatePropertyGrouping(hdrs) ==
    LET keys == GroupKeys(hdrs, 1, <<>>)
        ungrouped == SelectSeq(keys, LAMBDA root :
                        /\ Len(GroupIndices(hdrs, root)) > 1
                        /\ ~areConsecutive(GroupIndices(hdrs, root)))
    IN  [n \in 1..Len(ungrouped) |-> [kind |-> "NotGrouped", root |-> ungrouped[n]]]

(***************************************************************************)
(* The tokenizer on its own: every text over TokChars up to MaxText        *)
(* characters is split into lines, and every line into fields.             *)
(***************************************************************************)
TokChars == {"a", ",", "\"", "\n", "\r", " "}

TokInit ==
    /\ csvContent \in StringsUpTo(TokChars, MaxText)
    /\ pc = "start"
    /\ lines = <<>>
    /\ headers = <<>>
    /\ i = 0
    /\ jsonData = <<>>
    /\ error = NoError
    /\ warnings = <<>>
    /\ tokenized = <<>>
    /\ rows = <<>>
    /\ values = <<>>
    /\ result = NoValue
    /\ calls = <<>>
    /\ value = <<>>
    /\ converted = NoValue
    /\ DbIdle

TokSplit ==
    /\ pc = "start"
    /\ lines' = splitCSVLines(csvContent)
    /\ pc' = "rows"
    /\ UNCHANGED <<csvContent, headers, i, jsonData, error, warnings, tokenized, rows,
                   values, result, calls, value, converted>>
    /\ UNCHANGED dbVars

TokRow ==
    /\ pc = "rows"
    /\ i < Len(lines)
    /\ rows' = Append(rows, parseCSVRow(lines[i + 1]))
    /\ tokenized' = Append(tokenized, i)
    /\ i' = i + 1
    /\ UNCHANGED <<pc, csvContent, lines, headers, jsonData, error, warnings,
                   values, result, calls, value, converted>>
    /\ UNCHANGED dbVars

TokNext == TokSplit \/ TokRow

SpecTok == TokInit /\ [][TokNext]_vars

(***************************************************************************)
(* The tokenizer's contract, stated over positions of the text instead of  *)
(* as a scan. Positions are 1-based.                                       *)
(***************************************************************************)
\* how many double-quote characters stand before position p of s
QuotesBefore(s, p) == Cardinality({j \in 1..(p - 1) : s[j] = "\""})

\* position p of s is outside quotes
OutsideQuotes(s, p) == QuotesBefore(s, p) % 2 = 0

\* the positions of s, ascending
Positions(s) == [p \in 1..Len(s) |-> p]

\* the line terminators: a \n outside quotes (with the \r just before it, if any)
LineBreaks(s) == SelectSeq(Positions(s), LAMBDA p : s[p] = "\n" /\ OutsideQuotes(s, p))

\* the k-th segment of s between the cuts (k = Len(cuts) + 1 is the rest)
Segment(s, cuts, k) ==
    SubSeq(s, IF k = 1 THEN 1 ELSE cuts[k - 1] + 1,
              IF k > Len(cuts) THEN Len(s) ELSE cuts[k] - 1)

\* a terminated segment loses the \r of its \r\n
DropCR(seg) ==
    IF seg # <<>> /\ seg[Len(seg)] = "\r" THEN SubSeq(seg, 1, Len(seg) - 1) ELSE seg

LogicalSegments(s) ==
    LET cuts == LineBreaks(s)
    IN  [k \in 1..(Len(cuts) + 1) |->
            IF k <= Len(cuts) THEN DropCR(Segment(s, cuts, k)) ELSE Segment(s, cuts, k)]

NonBlank(seg) == Trim(seg) # <<>>

ExpectedLines(s) == SelectSeq(LogicalSegments(s), NonBlank)

\* the field separators of a line: the commas outside quotes
FieldBreaks(row) ==
    SelectSeq(Positions(row), LAMBDA p : row[p] = "," /\ OutsideQuotes(row, p))

\* A character of a row survives quote resolution when it is no double-quote, or
\* when it is the second double-quote of a doubled pair inside a quoted field.
Survives(row, p) ==
    \/ row[p] # "\""
    \/ /\ p > 1
       /\ row[p - 1] = "\""
       /\ OutsideQuotes(row, p)

\* the characters of positions from..to of row that survive quote resolution
RECURSIVE Resolved(_, _, _)
Resolved(row, from, to) ==
    IF from > to THEN <<>>
    ELSE (IF Survives(row, from) THEN <<row[from]>> ELSE <<>>)
         \o Resolved(row, from + 1, to)

ExpectedFields(row) ==
    LET cuts == FieldBreaks(row)
    IN  [k \in 1..(Len(cuts) + 1) |->
            Trim(Resolved(row, IF k = 1 THEN 1 ELSE cuts[k - 1] + 1,
                               IF k > Len(cuts) THEN Len(row) ELSE cuts[k] - 1))]

\* part is a run of consecutive characters of whole
IsSubstring(part, whole) ==
    \E from \in 1..(Len(whole) + 1) :
        /\ from + Len(part) - 1 <= Len(whole)
        /\ SubSeq(whole, from, from + Len(part) - 1) = part

\* C4: once splitCSVLines has run, its lines are exactly the non-blank segments of
\* the text between the line terminators (\n or \r\n) that stand outside quotes, in
\* input order; a terminator inside quotes stays in its line.
C4_LinesAreOutsideQuoteSegments ==
    pc = "rows" => lines = ExpectedLines(csvContent)

\* a quoted newline is kept inside a line, a terminator outside quotes ends a
\* line, and two lines come out
C4_Witness ==
    /\ pc = "rows"
    /\ Len(lines) = 2
    /\ \E p \in 1..Len(lines[1]) : lines[1][p] = "\n"

\* C5: parseCSVRow returns (number of commas outside quotes) + 1 fields, each the
\* characters between two separators with the toggling quotes removed, a doubled
\* quote inside quotes kept once, trimmed afterwards; the line it is given holds the
\* doubled quotes of the text verbatim.
C5_FieldsSplitAtOutsideCommas ==
    \A k \in 1..Len(rows) :
        /\ Len(rows[k]) = Len(FieldBreaks(lines[k])) + 1
        /\ rows[k] = ExpectedFields(lines[k])
        /\ IsSubstring(lines[k], csvContent)

\* a row whose field holds a literal double-quote that came from a doubled pair
C5_Witness ==
    \E k \in 1..Len(rows) :
        /\ \E f \in 1..Len(rows[k]) : rows[k][f] = <<"\"">>
        /\ IsSubstring(<<"\"", "\"", "\"">>, lines[k])

\* a comma inside quotes does not split
C5_WitnessComma ==
    \E k \in 1..Len(rows) : rows[k] = <<<<",">>>>

(***************************************************************************)
(* convertValue on its own: every string over NumChars up to MaxRaw        *)
(* characters, and the strings of SampleValues, are converted.             *)
(***************************************************************************)
NumChars == {"0", "1", ".", "e", "-", "x", "b", " "}

SampleValues ==
    { <<"t", "r", "u", "e">>, <<"T", "r", "u", "e">>, <<"T", "R", "U", "E">>,
      <<"f", "a", "l", "s", "e">>, <<"F", "a", "l", "s", "e">>,
      <<"F", "A", "L", "S", "E">>, <<"t", "r", "u", "e", "x">>,
      <<"4", "2">>, <<"4", "2", ".", "5">>, <<"4", "2", "a", "b", "c">>,
      <<"1", "2", "a", "b", "c">>, <<"1", "e", "3">>, <<"2", ".", "5", "e", "1">>,
      <<"+", "1">>, <<"1", "E", "1">>, <<"0", "X", "1", "0">>, <<"0", "o", "1", "7">>,
      <<"I", "n", "f", "i", "n", "i", "t", "y">>,
      <<"-", "I", "n", "f", "i", "n", "i", "t", "y">>,
      <<"A", "l", "i", "c", "e">> }

CoerceInit ==
    /\ value \in StringsUpTo(NumChars, MaxRaw) \cup SampleValues
    /\ pc = "start"
    /\ converted = NoValue
    /\ DbIdle
    /\ csvContent = <<>>
    /\ lines = <<>>
    /\ headers = <<>>
    /\ i = 0
    /\ jsonData = <<>>
    /\ error = NoError
    /\ warnings = <<>>
    /\ tokenized = <<>>
    /\ rows = <<>>
    /\ values = <<>>
    /\ result = NoValue
    /\ calls = <<>>

Convert ==
    /\ pc = "start"
    /\ converted' = convertValue(value)
    /\ pc' = "returned"
    /\ UNCHANGED <<csvContent, lines, headers, i, jsonData, error, warnings, tokenized,
                   rows, values, result, calls, value>>
    /\ UNCHANGED dbVars

CoerceNext == Convert

SpecCoerce == CoerceInit /\ [][CoerceNext]_vars

(***************************************************************************)
(* What "parses fully as a number" means, stated as a match of the whole   *)
(* string against the grammar of numeric literals, not as a scan.          *)
(***************************************************************************)
AllDigits(s, from, to, radix) == \A p \in from..to : DigitValue(s[p]) < radix

\* s[from..to] is (e|E) [+-] digits
IsExponent(s, from, to) ==
    /\ from <= to
    /\ Lower(s[from]) = "e"
    /\ LET d == IF At(s, from + 1) \in {"+", "-"} THEN from + 2 ELSE from + 1
       IN  d <= to /\ AllDigits(s, d, to, 10)

\* s[from..to] is digits, digits. , digits.digits or .digits
IsMantissa(s, from, to) ==
    /\ from <= to
    /\ \/ AllDigits(s, from, to, 10)
       \/ \E dot \in from..to :
            /\ s[dot] = "."
            /\ AllDigits(s, from, dot - 1, 10)
            /\ AllDigits(s, dot + 1, to, 10)
            /\ (dot > from \/ dot < to)

IsDecimalLiteral(s) ==
    LET from == IF At(s, 1) \in {"+", "-"} THEN 2 ELSE 1
    IN  \/ \E mantissaEnd \in from..Len(s) :
             /\ IsMantissa(s, from, mantissaEnd)
             /\ (mantissaEnd = Len(s) \/ IsExponent(s, mantissaEnd + 1, Len(s)))
        \/ /\ Len(s) = from + 7
           /\ \A p \in 1..8 : s[from + p - 1] = InfinityWord[p]

IsRadixLiteral(s) ==
    /\ Len(s) >= 3
    /\ s[1] = "0"
    /\ \/ Lower(s[2]) = "x" /\ AllDigits(s, 3, Len(s), 16)
       \/ Lower(s[2]) = "o" /\ AllDigits(s, 3, Len(s), 8)
       \/ Lower(s[2]) = "b" /\ AllDigits(s, 3, Len(s), 2)

ParsesFullyAsNumber(s) == IsDecimalLiteral(Trim(s)) \/ IsRadixLiteral(Trim(s))

EqualsIgnoringCase(s, word) ==
    Len(s) = Len(word) /\ \A p \in 1..Len(s) : Lower(s[p]) = word[p]

\* C6: convertValue classifies by a fixed precedence: the empty string stays the
\* empty string; else a string that is a numeric literal as a whole gives a number
\* (a numeric prefix is not enough), and NaN is not a number; else true/false in
\* any case give the boolean; else the string comes back unchanged.
C6_ClassifiesByPrecedence ==
    pc = "returned" =>
        IF value = <<>> THEN converted = JSString(<<>>)
        ELSE IF ParsesFullyAsNumber(value)
        THEN converted.t = "number" /\ ~IsNaNValue(converted.num)
        ELSE IF EqualsIgnoringCase(value, TrueWord) THEN converted = JSBoolean(TRUE)
        ELSE IF EqualsIgnoringCase(value, FalseWord) THEN converted = JSBoolean(FALSE)
        ELSE converted = JSString(value)

\* C6 as far as typeof goes: the same precedence, with any value of type number,
\* NaN among them, for a numeric literal
C6_TypeByPrecedence ==
    pc = "returned" =>
        IF value = <<>> THEN converted = JSString(<<>>)
        ELSE IF ParsesFullyAsNumber(value) THEN converted.t = "number"
        ELSE IF EqualsIgnoringCase(value, TrueWord) THEN converted = JSBoolean(TRUE)
        ELSE IF EqualsIgnoringCase(value, FalseWord) THEN converted = JSBoolean(FALSE)
        ELSE converted = JSString(value)

\* a string with only a numeric prefix has come back as the string it was
C6_Witness ==
    /\ pc = "returned"
    /\ value = <<"4", "2", "a", "b", "c">>
    /\ converted = JSString(value)

\* a decimal literal has come back as a number
C6_WitnessNumber ==
    pc = "returned" /\ value = <<"4", "2", ".", "5">> /\ converted.t = "number"

(***************************************************************************)
(* Serializing a number again: JSON.stringify writes a finite number as    *)
(* Number::toString does (ECMA-262 6.1.6.1.20) and any other as null.      *)
(***************************************************************************)
RECURSIVE DigitChars(_)
DigitChars(m) ==
    IF m < 10 THEN <<Digits[m + 1]>>
    ELSE Append(DigitChars(m \div 10), Digits[(m % 10) + 1])

Zeros(n) == [p \in 1..n |-> "0"]

NumberToString(n) ==
    LET ds == DigitChars(n.m)
        k == Len(ds)
        pt == k + n.e
        body ==
            IF k <= pt /\ pt <= 21 THEN ds \o Zeros(pt - k)
            ELSE IF 0 < pt /\ pt <= 21
            THEN SubSeq(ds, 1, pt) \o <<".">> \o SubSeq(ds, pt + 1, k)
            ELSE IF -6 < pt /\ pt <= 0 THEN <<"0", ".">> \o Zeros(0 - pt) \o ds
            ELSE (IF k = 1 THEN ds ELSE <<ds[1], ".">> \o Tail(ds))
                 \o <<"e", IF pt - 1 < 0 THEN "-" ELSE "+">>
                 \o DigitChars(IF pt - 1 < 0 THEN 1 - pt ELSE pt - 1)
    IN  IF n.k = "nan" THEN <<"N", "a", "N">>
        ELSE IF n.k = "inf" THEN (IF n.neg THEN <<"-">> ELSE <<>>) \o InfinityWord
        ELSE (IF n.neg THEN <<"-">> ELSE <<>>) \o body

\* C7: whenever convertValue gives a number, that number is the numeric value of
\* the whole string, and writing it out and reading it back gives that value again.
C7_NumberIsValueOfWholeString ==
    (pc = "returned" /\ converted.t = "number") =>
        /\ converted.num = ToNumber(value)
        /\ ToNumber(NumberToString(converted.num)) = ToNumber(value)

(***************************************************************************)
(* createNestedObject on its own, one column per step: up to MaxCols       *)
(* header cells of HeaderCells, each with a value of CellValues.           *)
(***************************************************************************)
HeaderCells ==
    { <<"a">>, <<"b">>, <<"a", ".", "b">>, <<"a", ".", "a">>, <<"b", ".", "a">>,
      <<"a", ".", "b", ".", "a">>, <<"a", ".", "b", ".", "b">>,
      <<"a", ".", "b", ".", "a", ".", "b", ".", "a">>,
      <<>>, <<"a", ".">>, <<".", "a">>, <<"a", ".", ".", "b">>,
      <<"a", ".", " ", ".", "b">> }

CellValues == { <<>>, <<"1">>, <<"x">> }

\* the sequences of n elements of S
Tuples(S, n) == [1..n -> S]

BuildInit ==
    /\ \E n \in 1..MaxCols :
          /\ headers \in Tuples(HeaderCells, n)
          /\ values \in Tuples(CellValues, n)
    /\ pc = "columns"
    /\ i = 0
    /\ result = EmptyObject
    /\ calls = <<>>
    /\ error = NoError
    /\ csvContent = <<>>
    /\ lines = <<>>
    /\ jsonData = <<>>
    /\ warnings = <<>>
    /\ tokenized = <<>>
    /\ rows = <<>>
    /\ value = <<>>
    /\ converted = NoValue
    /\ DbIdle

\* one iteration of createNestedObject's loop (lines 244-251)
BuildColumn ==
    /\ pc = "columns"
    /\ i < Len(headers)
    /\ LET step == Column(result, headers, values, i)
       IN  /\ result' = step.node
           /\ calls' = calls \o step.called
           /\ IF step.thrown
              THEN pc' = "threw" /\ error' = step.message /\ i' = i
              ELSE pc' = pc /\ error' = error /\ i' = i + 1
    /\ UNCHANGED <<csvContent, lines, headers, jsonData, warnings, tokenized, rows,
                   values, value, converted>>
    /\ UNCHANGED dbVars

\* return result (line 253)
BuildReturn ==
    /\ pc = "columns"
    /\ i >= Len(headers)
    /\ pc' = "returned"
    /\ UNCHANGED <<csvContent, lines, headers, i, jsonData, error, warnings, tokenized,
                   rows, values, result, calls, value, converted>>
    /\ UNCHANGED dbVars

BuildNext == BuildColumn \/ BuildReturn

SpecBuild == BuildInit /\ [][BuildNext]_vars

(***************************************************************************)
(* Reading a built record back.                                            *)
(***************************************************************************)
\* the value found by following keys from node; NoValue when a key is missing or
\* a value on the way is no object
RECURSIVE Lookup(_, _)
Lookup(node, keys) ==
    IF keys = <<>> THEN node
    ELSE IF node.t = "object" /\ Head(keys) \in DOMAIN node.props
    THEN Lookup(node.props[Head(keys)], Tail(keys))
    ELSE NoValue

\* the object that holds leaf at keys and nothing else
RECURSIVE Chain(_, _)
Chain(keys, leaf) ==
    IF keys = <<>> THEN leaf
    ELSE Put(EmptyObject, Head(keys), Chain(Tail(keys), leaf))

IsScalar(v) == v.t \in {"string", "number", "boolean"}

IsPrefix(p, q) == Len(p) <= Len(q) /\ \A n \in 1..Len(p) : p[n] = q[n]

\* column c (1-based) has a header and a non-empty field
Written(c) == headers[c] # <<>> /\ values[c] # <<>>

\* the loop of createNestedObject goes from column i (0-based) to the next
StepsColumn == pc = "columns" /\ pc' = "columns" /\ i' = i + 1

\* C8: a column whose field is the empty string leaves the record as it was and
\* never reaches convertValue; convertValue is never called with the empty string;
\* and a row of empty fields only builds the empty record.
C8_EmptyFieldWritesNothing ==
    [][ /\ (StepsColumn /\ values[i + 1] = <<>>) => (result' = result /\ calls' = calls)
        /\ \A n \in 1..Len(calls') : calls'[n] # <<>>
        /\ (pc' = "returned" /\ \A c \in 1..Len(values) : values[c] = <<>>)
              => result' = EmptyObject ]_vars

\* a record was returned for an empty field under a nested header followed by a
\* written column: the empty column left no container behind
C8_Witness ==
    /\ pc = "returned"
    /\ Len(headers) = 2
    /\ headers[1] = <<"a", ".", "b">> /\ values[1] = <<>>
    /\ headers[2] = <<"b">> /\ values[2] = <<"1">>
    /\ DOMAIN result.props = {<<"b">>}

C10_WitnessPrefix ==
    /\ i = 2
    /\ headers = << <<"a", ".", "b">>, <<"a">> >>
    /\ values = << <<"x">>, <<"1">> >>
    /\ result = Chain(<< <<"a">> >>, convertValue(<<"1">>))

(***************************************************************************)
(* parseCSVContent (lines 30-84), a step per statement and per iteration   *)
(* of the row loop, on texts made of a header line of HeaderLines (or      *)
(* none) and up to MaxRows lines of DataLines, ended by \n or by \r\n.     *)
(***************************************************************************)
RECURSIVE Join(_, _)
Join(parts, sep) ==
    IF parts = <<>> THEN <<>>
    ELSE IF Len(parts) = 1 THEN parts[1]
    ELSE parts[1] \o sep \o Join(Tail(parts), sep)

Comma == <<",">>

HeaderLines ==
    { Join(<<NameFirstName, NameLastName, Age>>, Comma),
      Join(<<NameFirstName, NameLastName, Age, <<"a", ".", "b">> >>, Comma),
      Join(<<NameFirstName, NameLastName, Age, <<"a", ".", ".", "b">> >>, Comma),
      Join(<<NameFirstName, Age, NameLastName>>, Comma),
      Join(<< <<"\"">> \o NameFirstName \o <<"\"">>, NameLastName, <<" ">> \o Age>>, Comma),
      Join(<<NameFirstName, NameLastName>>, Comma),
      Age,
      <<"a", ".", "b">> }

DataLines ==
    { <<"a", ",", "b", ",", "1">>,
      <<"a", ",", "b", ",", "1", ",", "x">>,
      <<"a", ",", "b">>,
      <<"a", ",", "b", ",", "1", ",">>,
      <<"\"", "a", ",", "b", "\n", "x", "\"", ",", "b", ",", "1">>,
      <<",", ",">>,
      <<" ", " ">> }

LineEnds == { <<"\n">>, <<"\r", "\n">> }

Init ==
    /\ \E head \in {<<>>} \cup {<<h>> : h \in HeaderLines} :
       \E n \in 0..MaxRows :
       \E body \in Tuples(DataLines, n) :
       \E eol \in LineEnds :
          csvContent = Join(head \o body, eol)
    /\ pc = "start"
    /\ lines = <<>>
    /\ headers = <<>>
    /\ i = 0
    /\ jsonData = <<>>
    /\ error = NoError
    /\ warnings = <<>>
    /\ tokenized = <<>>
    /\ rows = <<>>
    /\ values = <<>>
    /\ result = NoValue
    /\ calls = <<>>
    /\ value = <<>>
    /\ converted = NoValue
    /\ DbIdle

\* line 31
SplitLines ==
    /\ pc = "start"
    /\ lines' = splitCSVLines(csvContent)
    /\ pc' = "checkLines"
    /\ UNCHANGED <<csvContent, headers, i, jsonData, error, warnings, tokenized, rows,
                   values, result, calls, value, converted>>
    /\ UNCHANGED dbVars

\* the two checks of lines 33-39 in the other order: no line at all is reported
\* as missing data rows
CheckLinesDataRowsFirst ==
    /\ pc = "checkLines"
    /\ IF Len(lines) < 2
       THEN pc' = "failed" /\ error' = [kind |-> "MissingDataRows"]
       ELSE pc' = "parseHeader" /\ error' = error
    /\ UNCHANGED <<csvContent, lines, headers, i, jsonData, warnings, tokenized, rows,
                   values, result, calls, value, converted>>
    /\ UNCHANGED dbVars

\* lines 33-39
CheckLines ==
    /\ pc = "checkLines"
    /\ IF Len(lines) < 1
       THEN pc' = "failed" /\ error' = [kind |-> "EmptyInput"]
       ELSE IF Len(lines) < 2
       THEN pc' = "failed" /\ error' = [kind |-> "MissingDataRows"]
       ELSE pc' = "parseHeader" /\ error' = error
    /\ UNCHANGED <<csvContent, lines, headers, i, jsonData, warnings, tokenized, rows,
                   values, result, calls, value, converted>>
    /\ UNCHANGED dbVars

\* line 42
ParseHeader ==
    /\ pc = "parseHeader"
    /\ headers' = parseCSVRow(lines[1])
    /\ tokenized' = Append(tokenized, 0)
    /\ pc' = "validateMandatory"
    /\ UNCHANGED <<csvContent, lines, i, jsonData, error, warnings, rows,
                   values, result, calls, value, converted>>
    /\ UNCHANGED dbVars

\* line 46
ValidateMandatory ==
    /\ pc = "validateMandatory"
    /\ error' = validateMandatoryFields(headers)
    /\ pc' = IF error' = NoError THEN "validateGrouping" ELSE "failed"
    /\ UNCHANGED <<csvContent, lines, headers, i, jsonData, warnings, tokenized, rows,
                   values, result, calls, value, converted>>
    /\ UNCHANGED dbVars

\* lines 49-55: the grouping check, then the row loop starts at i = 1
ValidateGrouping ==
    /\ pc = "validateGrouping"
    /\ warnings' = warnings \o validatePropertyGrouping(headers)
    /\ i' = 1
    /\ pc' = "rows"
    /\ UNCHANGED <<csvContent, lines, headers, jsonData, error, tokenized, rows,
                   values, result, calls, value, converted>>
    /\ UNCHANGED dbVars

\* lines 55-80: one iteration of the row loop
ProcessRow ==
    /\ pc = "rows"
    /\ i < Len(lines)
    /\ i' = i + 1
    /\ IF Trim(lines[i + 1]) = <<>>
       THEN UNCHANGED <<jsonData, warnings, tokenized, rows, values, result, calls>>
       ELSE /\ values' = parseCSVRow(lines[i + 1])
            /\ tokenized' = Append(tokenized, i)
            /\ rows' = Append(rows, values')
            /\ IF Len(values') # Len(headers)
               THEN /\ warnings' = Append(warnings,
                           [kind |-> "ColumnCountMismatch", row |-> i + 1,
                            expected |-> Len(headers), got |-> Len(values')])
                    /\ UNCHANGED <<jsonData, result, calls>>
               ELSE \E built \in {createNestedObject(headers, values')} :
                        /\ result' = built.node
                        /\ calls' = calls \o built.called
                        /\ IF built.thrown
                           THEN /\ warnings' = Append(warnings,
                                       [kind |-> "ErrorCreatingObject", row |-> i + 1,
                                        message |-> built.message])
                                /\ jsonData' = jsonData
                           ELSE /\ jsonData' = pushRecord(jsonData, built.node)
                                /\ warnings' = warnings
    /\ UNCHANGED <<pc, csvContent, lines, headers, error, value, converted>>
    /\ UNCHANGED dbVars

\* line 83
Return ==
    /\ pc = "rows"
    /\ i >= Len(lines)
    /\ pc' = "returned"
    /\ UNCHANGED <<csvContent, lines, headers, i, jsonData, error, warnings, tokenized,
                   rows, values, result, calls, value, converted>>
    /\ UNCHANGED dbVars

Next ==
    \/ SplitLines
    \/ CheckLines
    \/ ParseHeader
    \/ ValidateMandatory
    \/ ValidateGrouping
    \/ ProcessRow
    \/ Return

Spec == Init /\ [][Next]_vars

(***************************************************************************)
(* What parseCSVContent owes its caller.                                   *)
(***************************************************************************)
\* the mandatory paths that are not among the parsed headers
MissingMandatory ==
    {field \in {NameFirstName, NameLastName, Age} :
        \A h \in 1..Len(headers) : headers[h] # field}

\* the fields of data row k, the line at 0-based index k
DataRow(k) == parseCSVRow(lines[k + 1])

\* data row k is skipped: its field count differs from the header's, or
\* building its record throws
Skipped(k) ==
    \/ Len(DataRow(k)) # Len(headers)
    \/ createNestedObject(headers, DataRow(k)).thrown

\* the data rows among the first n that are not skipped, in input order
Kept(n) == SelectSeq([k \in 1..n |-> k], LAMBDA k : ~Skipped(k))

\* the rows the warnings about skipped rows name, in the order they were logged
SkipWarnings ==
    SelectSeq(warnings, LAMBDA w : w.kind \in {"ColumnCountMismatch", "ErrorCreatingObject"})

\* C1: with at least two logical lines and all mandatory headers present the
\* conversion does not fail, and once the loop has passed the data rows 1..i-1
\* the records are exactly the records of the rows among them that are not
\* skipped, each built from its own row alone, in the order of the rows; a row
\* is skipped exactly when its field count differs from the header's or its
\* build throws, each skipped row is reported under its row number, and the
\* function returns only after the last row.
C1_OneRecordPerKeptRowInOrder ==
    /\ (Len(lines) >= 2 /\ tokenized # <<>> /\ MissingMandatory = {}) => pc # "failed"
    /\ pc \in {"rows", "returned"} =>
          LET kept == Kept(i - 1)
              skipped == SelectSeq([k \in 1..(i - 1) |-> k], LAMBDA k : Skipped(k))
          IN  /\ MissingMandatory = {}
              /\ Len(lines) >= 2
              /\ error = NoError
              /\ Len(jsonData) = Len(kept)
              /\ \A n \in 1..Len(kept) :
                    jsonData[n] = createNestedObject(headers, DataRow(kept[n])).node
              /\ Len(SkipWarnings) = Len(skipped)
              /\ \A n \in 1..Len(skipped) : SkipWarnings[n].row = skipped[n] + 1
              /\ pc = "returned" => i = Len(lines)

\* a row was skipped for its field count, and the row after it gave the record
C1_Witness ==
    /\ pc = "returned"
    /\ Len(lines) = 3
    /\ Len(DataRow(1)) # Len(headers)
    /\ ~Skipped(2)
    /\ Len(jsonData) = 1
    /\ jsonData[1] = createNestedObject(headers, DataRow(2)).node

\* two rows that differ gave two records, in the order of the rows
C1_WitnessOrder ==
    /\ pc = "returned"
    /\ Len(jsonData) = 2
    /\ jsonData[1] # jsonData[2]
    /\ jsonData[1] = createNestedObject(headers, DataRow(1)).node

\* a row was skipped because its build threw, and the next row was kept
C1_WitnessThrown ==
    /\ pc = "returned"
    /\ Len(lines) = 3
    /\ Len(DataRow(1)) = Len(headers)
    /\ createNestedObject(headers, DataRow(1)).thrown
    /\ Len(jsonData) = 1
    /\ jsonData[1] = createNestedObject(headers, DataRow(2)).node

\* C2: once the header row is parsed, if a mandatory path is absent from it the
\* function gets no further than the mandatory-field check and fails there with
\* the error that names exactly the absent paths, each once; only the header
\* line has been tokenized, nothing has been built or converted and there is no
\* record. With no mandatory path absent that error is not raised.
C2_MissingMandatoryIsFatal ==
    tokenized # <<>> =>
        IF MissingMandatory # {}
        THEN /\ pc \in {"validateMandatory", "failed"}
             /\ pc = "failed" =>
                   /\ error.kind = "MissingMandatoryFields"
                   /\ {error.fields[n] : n \in 1..Len(error.fields)} = MissingMandatory
                   /\ Len(error.fields) = Cardinality(MissingMandatory)
             /\ tokenized = <<0>>
             /\ rows = <<>>
             /\ calls = <<>>
             /\ result = NoValue
             /\ jsonData = <<>>
        ELSE error.kind # "MissingMandatoryFields"

\* the mandatory-field check failed on a header that has one mandatory path and lacks two,
\* with data rows waiting
C2_Witness ==
    /\ pc = "failed"
    /\ error.kind = "MissingMandatoryFields"
    /\ Len(error.fields) = 2
    /\ Len(lines) > 2

\* C3: after the length checks, a text of zero logical lines has failed with
\* the empty-input error and a text of exactly one with the missing-data-rows
\* error, in both cases with no line tokenized, no header validated and no
\* record; a text of two or more logical lines raises neither error.
C3_TooFewLinesIsFatal ==
    pc \notin {"start", "checkLines"} =>
        LET n == Len(ExpectedLines(csvContent))
            early == /\ pc = "failed"
                     /\ tokenized = <<>>
                     /\ headers = <<>>
                     /\ warnings = <<>>
                     /\ jsonData = <<>>
        IN  /\ n = 0 => early /\ error = [kind |-> "EmptyInput"]
            /\ n = 1 => early /\ error = [kind |-> "MissingDataRows"]
            /\ n >= 2 => error.kind \notin {"EmptyInput", "MissingDataRows"}

\* a text of blank lines only failed as empty
C3_Witness ==
    /\ pc = "failed"
    /\ error.kind = "EmptyInput"
    /\ Len(csvContent) > 2

\* a header followed by a blank line only failed for its missing data rows
C3_WitnessOneLine ==
    /\ pc = "failed"
    /\ error.kind = "MissingDataRows"
    /\ Len(csvContent) > Len(lines[1]) + 2

\* a header cell whose path has a segment that is empty or blank: the empty cell,
\* a leading, trailing or doubled dot
HasInvalidSegment(header) ==
    \E n \in 1..Len(split(header)) : Trim(split(header)[n]) = <<>>

\* C11: when some header path has an empty or blank segment, every data row of
\* the header's field count fails to build with the invalid-property-path
\* error, whatever its fields are: the row is skipped under a warning that
\* names it and the error, no record of it reaches the output, and the loop
\* goes on to the rows after it.
C11_InvalidPathFailsEveryRow ==
    (pc \in {"rows", "returned"} /\ \E h \in 1..Len(headers) : HasInvalidSegment(headers[h]))
        => /\ jsonData = <<>>
           /\ \A k \in 1..(i - 1) :
                 Len(DataRow(k)) = Len(headers) =>
                    \E n \in 1..Len(warnings) :
                        /\ warnings[n].kind = "ErrorCreatingObject"
                        /\ warnings[n].row = k + 1
                        /\ warnings[n].message.kind = "InvalidPropertyPath"
           /\ pc = "returned" => i = Len(lines)

(***************************************************************************)
(* parseCSVContent from the grouping check on (lines 49-84): the text is a *)
(* header line of the three mandatory cells and up to MaxExtra more cells  *)
(* of GroupCells, in any order and with repeats, and one data row of as    *)
(* many fields; lines and headers are what lines 31 and 42 made of it.     *)
(***************************************************************************)
GroupCells == {NameFirstName, NameLastName, Age, <<"a">>, <<"a", ".", "b">>}

GroupFields == {<<"1">>, <<"x">>}

GroupInit ==
    /\ \E n \in 3..(3 + MaxExtra) :
       \E cells \in Tuples(GroupCells, n) :
       \E field \in GroupFields :
          /\ \A m \in 1..3 : \E h \in 1..n : cells[h] = mandatoryFields[m]
          /\ csvContent = Join(<<Join(cells, Comma), Join([h \in 1..n |-> field], Comma)>>,
                               <<"\n">>)
    /\ lines = splitCSVLines(csvContent)
    /\ headers = parseCSVRow(lines[1])
    /\ tokenized = <<0>>
    /\ pc = "validateGrouping"
    /\ i = 0
    /\ jsonData = <<>>
    /\ error = NoError
    /\ warnings = <<>>
    /\ rows = <<>>
    /\ values = <<>>
    /\ result = NoValue
    /\ calls = <<>>
    /\ value = <<>>
    /\ converted = NoValue
    /\ DbIdle

GroupNext == ValidateGrouping \/ ProcessRow \/ Return

SpecGroup == GroupInit /\ [][GroupNext]_vars

\* the first path segment of a header: what stands before its first dot
RootOf(header) ==
    IF \E p \in 1..Len(header) : header[p] = "."
    THEN SubSeq(header, 1, (CHOOSE p \in 1..Len(header) :
                               /\ header[p] = "."
                               /\ \A q \in 1..(p - 1) : header[q] # ".") - 1)
    ELSE header

\* the header positions of a root
RootPositions(root) == {h \in 1..Len(headers) : RootOf(headers[h]) = root}

\* a root of more than one header whose positions leave a gap
NotContiguous(root) ==
    \E p \in RootPositions(root) : \E r \in RootPositions(root) :
    \E q \in (p + 1)..(r - 1) : q \notin RootPositions(root)

\* the warnings of the grouping check, in the order they were logged
GroupWarnings == SelectSeq(warnings, LAMBDA w : w.kind = "NotGrouped")

\* C12: once the grouping check has run, it has logged one warning for each
\* root that stands in more than one header at positions that leave a gap, and
\* none for any other root; nothing was thrown; and the records are those of
\* the rows not skipped, built from the headers and the rows alone, as they
\* are without the check.
C12_OneWarningPerScatteredRoot ==
    pc \in {"rows", "returned"} =>
        /\ \A n \in 1..Len(GroupWarnings) :
              /\ NotContiguous(GroupWarnings[n].root)
              /\ \A m \in 1..Len(GroupWarnings) :
                    GroupWarnings[m].root = GroupWarnings[n].root => m = n
        /\ \A h \in 1..Len(headers) :
              NotContiguous(RootOf(headers[h])) =>
                  \E n \in 1..Len(GroupWarnings) : GroupWarnings[n].root = RootOf(headers[h])
        /\ error = NoError
        /\ headers = parseCSVRow(lines[1])
        /\ Len(jsonData) = Len(Kept(i - 1))
        /\ \A n \in 1..Len(jsonData) :
              jsonData[n] = createNestedObject(headers, DataRow(Kept(i - 1)[n])).node

\* two roots were scattered and a record was returned all the same
C12_Witness ==
    /\ pc = "returned"
    /\ Len(GroupWarnings) = 2
    /\ GroupWarnings[1].root # GroupWarnings[2].root
    /\ Len(jsonData) = 1

\* a root of two adjacent headers and a root of one header drew no warning
C12_WitnessGrouped ==
    /\ pc = "returned"
    /\ Len(headers) = 4
    /\ RootPositions(<<"n", "a", "m", "e">>) = {1, 2}
    /\ RootPositions(<<"a">>) = {4}
    /\ warnings = <<>>

(***************************************************************************)
(* insertUsersToDatabase (src/src/controllers/csvController.js, lines      *)
(* 66-144): what it reads from a record (lines 83-114).                    *)
(***************************************************************************)
batchSize == 1000

\* the value of a missing property, and null
UndefinedValue == [t |-> "undefined"]
Null == [t |-> "null"]

KeyName == <<"n", "a", "m", "e">>
KeyFirstName == <<"f", "i", "r", "s", "t", "N", "a", "m", "e">>
KeyLastName == <<"l", "a", "s", "t", "N", "a", "m", "e">>
KeyAddress == <<"a", "d", "d", "r", "e", "s", "s">>

\* v?.key and v.key of a value that is not undefined: a property of an object,
\* undefined of anything else the model has
Get(v, key) ==
    IF v.t = "object" /\ key \in DOMAIN v.props THEN v.props[key] ELSE UndefinedValue

\* what || and ?: take for true
Truthy(v) ==
    CASE v.t = "string" -> v.str # <<>>
      [] v.t = "number" -> v.num.k # "nan" /\ ~(v.num.k = "fin" /\ v.num.m = 0)
      [] v.t = "boolean" -> v.bool
      [] v.t = "object" -> TRUE
      [] OTHER -> FALSE

\* a || b
Or(a, b) == IF Truthy(a) THEN a ELSE b

\* the string a template literal and Number.parseInt make of a value
JSToString(v) ==
    CASE v.t = "string" -> v.str
      [] v.t = "number" -> NumberToString(v.num)
      [] v.t = "boolean" -> IF v.bool THEN TrueWord ELSE FalseWord
      [] v.t = "object" -> <<"[", "o", "b", "j", "e", "c", "t", " ",
                             "O", "b", "j", "e", "c", "t", "]">>
      [] v.t = "null" -> <<"n", "u", "l", "l">>
      [] OTHER -> <<"u", "n", "d", "e", "f", "i", "n", "e", "d">>

\* the text JSON.stringify writes for v, kept as the value it is the text of
JSONstringify(v) == [t |-> "json", of |-> v]

\* lines 86-88
fullNameOf(record) ==
    LET firstName == Or(Get(Get(record, KeyName), KeyFirstName), JSString(<<>>))
        lastName == Or(Get(Get(record, KeyName), KeyLastName), JSString(<<>>))
    IN  JSString(Trim(JSToString(firstName) \o <<" ">> \o JSToString(lastName)))

\* Number.parseInt(record.age) || 0 (line 89)
ageOf(record) ==
    Or(JSNumber(parseInt(JSToString(Get(record, Age)))), JSNumber(Canonical(FALSE, 0, 0)))

\* age < 0 || age > 150 (line 92), of the integer or infinity parseInt gives
InvalidAge(age) ==
    \/ age.num.neg
    \/ age.num.k = "inf"
    \/ age.num.e > 2
    \/ age.num.m * Pow10(age.num.e) > 150

\* lines 97 and 112
addressOf(record) ==
    LET address == Or(Get(record, KeyAddress), Null)
    IN  IF Truthy(address) THEN JSONstringify(address) ELSE Null

\* lines 100-103 and 113
additionalInfoOf(record) ==
    LET kept == DOMAIN record.props \ {KeyName, Age, KeyAddress}
        additionalInfo == JSObject([key \in kept |-> record.props[key]])
    IN  IF kept # {} THEN JSONstringify(additionalInfo) ELSE Null

\* values.push(fullName, age, ..., ...) for every record of the batch, in the
\* order of the batch (lines 82-115)
batchValues(batch) ==
    [n \in 1..(4 * Len(batch)) |->
        LET record == batch[((n - 1) \div 4) + 1]
        IN  CASE (n - 1) % 4 = 0 -> fullNameOf(record)
              [] (n - 1) % 4 = 1 -> ageOf(record)
              [] (n - 1) % 4 = 2 -> addressOf(record)
              [] OTHER -> additionalInfoOf(record)]

\* placeholders: for record j of the batch (0-based) the numbers of its four
\* parameters (lines 106-107)
batchPlaceholders(batch) ==
    [n \in 1..Len(batch) |->
        <<(n - 1) * 4 + 1, (n - 1) * 4 + 2, (n - 1) * 4 + 3, (n - 1) * 4 + 4>>]

\* the console.warn calls of lines 92-94 for a batch, in its order
batchWarnings(batch) ==
    LET invalid == SelectSeq([n \in 1..Len(batch) |-> n],
                             LAMBDA n : InvalidAge(ageOf(batch[n])))
    IN  [n \in 1..Len(invalid) |->
            [kind |-> "InvalidAge", age |-> ageOf(batch[invalid[n]]),
             user |-> fullNameOf(batch[invalid[n]])]]

\* a slice that forgets its end
sliceToEnd(data, from, to) == SubSeq(data, from + 1, Len(data))

\* jsonData.slice(i, i + batchSize)
slice(data, from, to) ==
    SubSeq(data, from + 1, IF to < Len(data) THEN to ELSE Len(data))

(***************************************************************************)
(* insertUsersToDatabase as steps: one per await.  Every client.query may  *)
(* resolve or reject, and so may pool.connect.                             *)
(***************************************************************************)
MaxRecords == 2

\* a whole number as convertValue leaves it in a record
Whole(neg, m) == JSNumber(Canonical(neg, m, 0))

Person(first, last) ==
    JSObject((KeyFirstName :> JSString(first)) @@ (KeyLastName :> JSString(last)))

SampleRecords ==
    { JSObject((KeyName :> Person(<<"A">>, <<"B">>)) @@ (Age :> Whole(FALSE, 30))),
      JSObject((KeyName :> JSObject(KeyFirstName :> JSString(<<"A">>)))
               @@ (Age :> Whole(FALSE, 200))
               @@ (KeyAddress :> JSObject(<<"c", "i", "t", "y">> :> JSString(<<"X">>)))),
      JSObject((KeyName :> JSObject(KeyLastName :> JSString(<<"B">>)))
               @@ (Age :> Whole(TRUE, 5))
               @@ (<<"g", "e", "n", "d", "e", "r">> :> JSString(<<"M">>))),
      JSObject(Age :> Whole(FALSE, 150)),
      JSObject((KeyName :> Person(<<"C">>, <<"D">>)) @@ (Age :> JSString(<<"x">>))),
      JSObject(KeyName :> Person(<<"E">>, <<"F">>)) }

\* the record lists that take more than one batch
LongLengths == {batchSize, batchSize + 1, 2 * batchSize + 1}

\* a list of n records: 30, then 151, then 31, and so on by turns
LongList(n) ==
    [k \in 1..n |->
        JSObject((KeyName :> Person(<<"A">>, <<"B">>))
                 @@ (Age :> Whole(FALSE, IF k % 2 = 1 THEN 30 ELSE 151)))]

InsertInit ==
    /\ \/ \E n \in 0..MaxRecords : jsonData \in Tuples(SampleRecords, n)
       \/ \E n \in LongLengths : jsonData = LongList(n)
    /\ pc = "connect"
    /\ csvContent = <<>>
    /\ lines = <<>>
    /\ headers = <<>>
    /\ i = 0
    /\ error = NoError
    /\ warnings = <<>>
    /\ tokenized = <<>>
    /\ rows = <<>>
    /\ values = <<>>
    /\ result = NoValue
    /\ calls = <<>>
    /\ value = <<>>
    /\ converted = NoValue
    /\ DbIdle

\* the rejection of the n-th query the client was sent
QueryFailed(text, n) == [kind |-> "QueryFailed", query |-> text, at |-> n]
ConnectFailed == [kind |-> "ConnectFailed"]

\* await client.query(text, values) that resolves (ok) or rejects
Query(text, params, ok) ==
    queries' = Append(queries, [text |-> text, values |-> params, ok |-> ok])

\* line 67: outside the try, so a rejection leaves the function at once
Connect ==
    /\ pc = "connect"
    /\ \/ /\ pc' = "begin"
          /\ UNCHANGED error
       \/ /\ pc' = "threw"
          /\ error' = ConnectFailed
    /\ UNCHANGED <<i, jsonData, warnings, values>>
    /\ UNCHANGED parserVars
    /\ UNCHANGED dbVars

\* line 72
Begin ==
    /\ pc = "begin"
    /\ \E ok \in BOOLEAN :
          /\ Query("BEGIN", <<>>, ok)
          /\ pc' = IF ok THEN "batch" ELSE "rollback"
          /\ caught' = IF ok THEN caught ELSE QueryFailed("BEGIN", Len(queries) + 1)
    /\ i' = 0
    /\ UNCHANGED <<jsonData, error, warnings, values>>
    /\ UNCHANGED parserVars
    /\ UNCHANGED <<insertedCount, released, returnValue>>

\* one turn of the loop of line 75 (lines 76-126)
InsertBatch ==
    /\ pc = "batch"
    /\ i < Len(jsonData)
    /\ \E batch \in {slice(jsonData, i, i + batchSize)} :
       \E ok \in BOOLEAN :
          \* line 118: a batch of the loop has a record, and so a placeholder
          /\ Len(batchPlaceholders(batch)) > 0
          /\ warnings' = warnings \o batchWarnings(batch)
          /\ Query("INSERT", batchValues(batch), ok)
          /\ insertedCount' = IF ok THEN insertedCount + Len(batch) ELSE insertedCount
          /\ i' = IF ok THEN i + batchSize ELSE i
          /\ pc' = IF ok THEN "batch" ELSE "rollback"
          /\ caught' = IF ok THEN caught ELSE QueryFailed("INSERT", Len(queries) + 1)
    /\ UNCHANGED <<jsonData, error, values>>
    /\ UNCHANGED parserVars
    /\ UNCHANGED <<released, returnValue>>

\* lines 134-136: the return value waits for the finally block
Commit ==
    /\ pc = "batch"
    /\ i >= Len(jsonData)
    /\ \E ok \in BOOLEAN :
          /\ Query("COMMIT", <<>>, ok)
          /\ pc' = IF ok THEN "release" ELSE "rollback"
          /\ caught' = IF ok THEN caught ELSE QueryFailed("COMMIT", Len(queries) + 1)
          /\ returnValue' = IF ok THEN [t |-> "integer", int |-> insertedCount]
                            ELSE returnValue
    /\ UNCHANGED <<i, jsonData, error, warnings, values>>
    /\ UNCHANGED parserVars
    /\ UNCHANGED <<insertedCount, released>>

\* lines 137-140: a ROLLBACK that rejects throws its own error out of the catch
Rollback ==
    /\ pc = "rollback"
    /\ \E ok \in BOOLEAN :
          /\ Query("ROLLBACK", <<>>, ok)
          /\ error' = IF ok THEN caught ELSE QueryFailed("ROLLBACK", Len(queries) + 1)
    /\ pc' = "release"
    /\ UNCHANGED <<i, jsonData, warnings, values>>
    /\ UNCHANGED parserVars
    /\ UNCHANGED <<insertedCount, caught, released, returnValue>>

\* lines 141-143
Release ==
    /\ pc = "release"
    /\ released' = released + 1
    /\ pc' = IF error = NoError THEN "returned" ELSE "threw"
    /\ UNCHANGED <<i, jsonData, error, warnings, values>>
    /\ UNCHANGED parserVars
    /\ UNCHANGED <<queries, insertedCount, caught, returnValue>>

InsertNext ==
    \/ Connect
    \/ Begin
    \/ InsertBatch
    \/ Commit
    \/ Rollback
    \/ Release

SpecInsert == InsertInit /\ [][InsertNext]_vars

(***************************************************************************)
(* What insertUsersToDatabase owes its caller.                             *)
(***************************************************************************)
Finished == pc \in {"returned", "threw"}

\* pool.connect resolved: BEGIN is sent right after it
Connected == queries # <<>>

\* the places in the log of the queries that rejected
Rejected == {k \in 1..Len(queries) : ~queries[k].ok}

\* the places in the log of the queries of one text
Issued(text) == {k \in 1..Len(queries) : queries[k].text = text}

\* the four parameters of one record
RecordValues(record) ==
    <<fullNameOf(record), ageOf(record), addressOf(record), additionalInfoOf(record)>>

\* the number of records left for the b-th batch (b from 1), at most batchSize
BatchLength(b) ==
    IF Len(jsonData) - (b - 1) * batchSize < batchSize
    THEN Len(jsonData) - (b - 1) * batchSize
    ELSE batchSize

\* BEGIN is the first query, and the k-th query, if an INSERT, carries the
\* records of batch k - 1 in input order, at least 1 and at most batchSize
BeginThenBatchesInOrder ==
    /\ Connected => queries[1].text = "BEGIN"
    /\ Issued("BEGIN") \subseteq {1}
    /\ \A k \in Issued("INSERT") :
          /\ k >= 2
          /\ \A before \in 1..(k - 1) :
                /\ queries[before].ok
                /\ before >= 2 => queries[before].text = "INSERT"
          /\ BatchLength(k - 1) >= 1
          /\ Len(queries[k].values) = 4 * BatchLength(k - 1)
          /\ \A j \in 1..BatchLength(k - 1) :
                SubSeq(queries[k].values, 4 * j - 3, 4 * j)
                    = RecordValues(jsonData[(k - 2) * batchSize + j])

\* every batch was inserted, COMMIT resolved, and the count of all records
\* is returned
Committed ==
    /\ Rejected = {}
    /\ pc = "returned"
    /\ queries[Len(queries)].text = "COMMIT"
    /\ Issued("COMMIT") = {Len(queries)}
    /\ Issued("ROLLBACK") = {}
    /\ Issued("INSERT") = 2..(Len(queries) - 1)
    /\ (Len(queries) - 3) * batchSize < Len(jsonData)
    /\ Len(jsonData) <= (Len(queries) - 2) * batchSize
    /\ returnValue = [t |-> "integer", int |-> Len(jsonData)]
    /\ insertedCount = Len(jsonData)
    /\ error = NoError

\* the first query that rejected is followed by ROLLBACK and by nothing else,
\* and the function throws
RolledBackAfter(first) ==
    /\ Len(queries) = first + 1
    /\ queries[first + 1].text = "ROLLBACK"
    /\ Issued("ROLLBACK") = {first + 1}
    /\ \A k \in 1..(first - 1) : queries[k].ok
    /\ pc = "threw"
    /\ returnValue = NoValue

\* C13 as amended: all or nothing over any outcomes of the queries.  BEGIN is
\* first and the batches are inserted in input order, at most batchSize records
\* each.  When the function has finished after connecting, either every query
\* up to and including COMMIT resolved and the count of all records is
\* returned, or the first query that rejected (BEGIN, an INSERT or COMMIT
\* itself) is followed by one ROLLBACK and nothing else, no COMMIT has
\* resolved, and the function throws: the first rejection when ROLLBACK
\* resolves, the rejection of ROLLBACK when it does not.  The client is
\* released exactly once, and never when pool.connect rejected.
C13_AllOrNothing ==
    /\ BeginThenBatchesInOrder
    /\ released <= 1
    /\ released = 1 => Finished
    /\ Finished /\ ~Connected =>
          /\ pc = "threw"
          /\ error = ConnectFailed
          /\ released = 0
    /\ Finished /\ Connected =>
          /\ released = 1
          /\ \/ Committed
             \/ \E first \in Rejected :
                   /\ queries[first].text \in {"BEGIN", "INSERT", "COMMIT"}
                   /\ RolledBackAfter(first)
                   /\ \A k \in Issued("COMMIT") : ~queries[k].ok
                   /\ error = IF queries[first + 1].ok
                               THEN QueryFailed(queries[first].text, first)
                               ELSE QueryFailed("ROLLBACK", first + 1)

\* the second of three batches rejects: ROLLBACK, the rejection is thrown, the
\* client is released
C13_Witness ==
    /\ pc = "threw"
    /\ Len(jsonData) = 2 * batchSize + 1
    /\ Len(queries) = 4
    /\ queries[2].ok
    /\ ~queries[3].ok
    /\ queries[3].text = "INSERT"
    /\ queries[4].text = "ROLLBACK"
    /\ error = QueryFailed("INSERT", 3)
    /\ released = 1

\* three batches and COMMIT resolve
C13_WitnessCommitted ==
    /\ pc = "returned"
    /\ Len(jsonData) = 2 * batchSize + 1
    /\ Issued("INSERT") = {2, 3, 4}
    /\ Len(queries[4].values) = 4
    /\ returnValue = [t |-> "integer", int |-> 2 * batchSize + 1]
    /\ released = 1

\* ROLLBACK rejects after COMMIT rejected
C13_WitnessRollbackRejected ==
    /\ pc = "threw"
    /\ jsonData # <<>>
    /\ Issued("COMMIT") # {}
    /\ error.kind = "QueryFailed"
    /\ error.query = "ROLLBACK"
    /\ released = 1

\* C13 as claimed: BEGIN first, batches of at most 1000 in input order, and
\* either every batch succeeds, COMMIT is issued and the count of the input
\* records is returned, or the first failing query causes ROLLBACK, no COMMIT
\* is ever issued and the function throws (that query's error, when ROLLBACK
\* resolves); in every outcome the client is released exactly once.
C13_NoCommitOnceAQueryFails ==
    /\ BeginThenBatchesInOrder
    /\ released <= 1
    /\ Finished /\ Connected =>
          /\ released = 1
          /\ \/ /\ Issued("INSERT") = {k \in 2..Len(queries) : queries[k].text = "INSERT"}
                /\ \A k \in Issued("INSERT") : queries[k].ok
                /\ Issued("COMMIT") # {}
                /\ pc = "returned"
                /\ returnValue = [t |-> "integer", int |-> Len(jsonData)]
             \/ \E first \in Rejected :
                   /\ \A k \in 1..(first - 1) : queries[k].ok
                   /\ queries[first + 1].text = "ROLLBACK"
                   /\ Issued("COMMIT") = {}
                   /\ pc = "threw"
                   /\ queries[first + 1].ok =>
                         error = QueryFailed(queries[first].text, first)

\* C14: an age below 0 or above 150 is set to 0, so every age passed to the
\* INSERT statement lies in 0..150.
C14_InsertedAgesWithinRange ==
    \A k \in Issued("INSERT") :
    \A j \in 1..(Len(queries[k].values) \div 4) :
        ~InvalidAge(queries[k].values[4 * j - 2])

\* an INSERT was sent for a record whose age is 200, after the warning that
\* says the age is set to 0
C14_InvalidAgeInserted ==
    /\ Len(jsonData) = 1
    /\ Get(jsonData[1], Age) = Whole(FALSE, 200)
    /\ Issued("INSERT") = {2}
    /\ queries[2].values[2] = Whole(FALSE, 200)
    /\ Len(warnings) = 1
    /\ warnings[1].kind = "InvalidAge"

====
